---- MODULE Spec2Model ----
(***************************************************************************)
(* Minions: planning -> task materialization -> phase-barriered execution  *)
(* -> blackboard store.  The orchestrator (Orchestrator.run and            *)
(* Orchestrator.executeTask), the enhanced planner it calls and the        *)
(* PostgreSQL blackboard are modelled as one state machine.  Every await   *)
(* of the TypeScript code is one action; the code between two awaits runs  *)
(* atomically on the single JavaScript thread.                             *)
(***************************************************************************)
EXTENDS Integers, Sequences, FiniteSets, TLC

VARIABLES
    task,        \* the task text given to Orchestrator.run
    enabled,     \* names of the rows of minions.tools with enabled = true
    runs,        \* minions.runs: run id -> row
    tasks,       \* minions.tasks: task id (1..n, creation order) -> row
    entries,     \* minions.entries: set of rows
    artifacts,   \* minions.artifacts: sequence of rows
    now,         \* the store's clock (NOW())
    nextId,      \* rows created so far (source of fresh row identities)
    calls,       \* per (run, key): the writeEntry calls applied so far
    pc,          \* position of Orchestrator.run
    tools,       \* local `tools` of run: result of getTools()
    plan,        \* local `plan` of run
    taskIdMap,   \* local `taskIdMap` of run: role -> task id
    mi,          \* materialization loop: <<phase index, task index>>
    ph,          \* execution loop: index of the phase being executed
    inv,         \* executeTask invocations of the current phase
    thrown,      \* error caught by run's catch / thrown to the caller
    apiKey,      \* whether process.env.ANTHROPIC_API_KEY is set
    failures,    \* store operations that have failed (thrown) so far
    executions   \* the task ids executeAgent has been called for, in call order

vars == <<task, enabled, runs, tasks, entries, artifacts, now, nextId, calls,
          pc, tools, plan, taskIdMap, mi, ph, inv, thrown, apiKey, executions, failures>>

NULL == <<>>

Range(s) == {s[i] : i \in 1..Len(s)}

(***************************************************************************)
(* Text matching.  A JavaScript /a|b|c/i.test(text) is true iff one of the *)
(* alternatives occurs as a substring of the lower-cased text.             *)
(***************************************************************************)
LowerChar(c) ==
    CASE c = "R" -> "r"
      [] c = "G" -> "g"
      [] c = "B" -> "b"
      [] c = "E" -> "e"
      [] OTHER -> c

RECURSIVE LowerCase(_)
LowerCase(s) ==
    IF Len(s) = 0 THEN ""
    ELSE IF Len(s) = 1 THEN LowerChar(s)
    ELSE LET half == Len(s) \div 2
         IN  LowerCase(SubSeq(s, 1, half)) \o LowerCase(SubSeq(s, half + 1, Len(s)))

Contains(text, pat) ==
    \E i \in 1..(Len(text) - Len(pat) + 1) :
        SubSeq(text, i, i + Len(pat) - 1) = pat

Test(alternatives, text) ==
    LET lower == LowerCase(text)
    IN  \E p \in alternatives : Contains(lower, p)

\* enhanced-planner.ts, analyzeTaskComplexity: the domain triggers, in order
DomainOrder ==
    <<"security", "database", "api", "frontend", "backend", "devops",
      "research", "testing">>

DomainRe(d) ==
    CASE d = "security" -> {"security", "audit", "vulnerability", "penetration"}
      [] d = "database" -> {"database", "postgres", "sql", "query"}
      [] d = "api"      -> {"api", "rest", "graphql", "endpoint"}
      [] d = "frontend" -> {"frontend", "ui", "react", "vue", "angular"}
      [] d = "backend"  -> {"backend", "server", "microservice"}
      [] d = "devops"   -> {"devops", "docker", "kubernetes", "deployment"}
      [] d = "research" -> {"research", "analyze", "investigate"}
      [] d = "testing"  -> {"test", "testing", "qa"}

EnterpriseRe == {"enterprise", "platform", "system", "architecture"}
MediumRiskRe == {"production", "live", "critical", "security"}
HighRiskRe == {"delete", "remove", "destroy", "nuclear"}
SequentialRe == {"after", "once", "when", "require", "depend"}
ParallelRe == {"and", "also", "plus", "additionally"}
ResearchRe == {"research", "analyze", "investigate"}
BuildRe == {"build", "create", "implement", "develop"}

MediumLength == 200
LargeLength == 500
MediumDomains == 2
LargeDomains == 3

analyzeTaskComplexity(text) ==
    LET domains == SelectSeq(DomainOrder, LAMBDA d : Test(DomainRe(d), text))
        n == Len(domains)
        scope0 == "small"
        scope1 == IF Len(text) > MediumLength \/ n > MediumDomains
                  THEN "medium" ELSE scope0
        scope2 == IF Len(text) > LargeLength \/ n > LargeDomains
                  THEN "large" ELSE scope1
        scope3 == IF Test(EnterpriseRe, text) THEN "enterprise" ELSE scope2
        risk1 == IF Test(MediumRiskRe, text) THEN "medium" ELSE "low"
        risk2 == IF Test(HighRiskRe, text) THEN "high" ELSE risk1
        deps == (IF Test(SequentialRe, text) THEN <<"sequential">> ELSE <<>>)
                \o (IF Test(ParallelRe, text) THEN <<"parallel">> ELSE <<>>)
    IN  [scope |-> scope3,
         domains |-> IF n > 0 THEN domains ELSE <<"general">>,
         dependencies |-> deps,
         parallelizable |-> "sequential" \notin Range(deps),
         riskLevel |-> risk2]

\* a filter that keeps the available names in the order of `available`
filter_AvailableOrder(wanted, available) ==
    SelectSeq(available, LAMBDA t : t \in Range(wanted))

\* filter(wanted, available): wanted.filter(t => available.includes(t))
filter(wanted, available) ==
    SelectSeq(wanted, LAMBDA t : t \in Range(available))

getToolsForDomain(domain, availableTools) ==
    LET domainTools ==
            CASE domain = "security" -> <<"shell_exec", "file_read", "web_fetch">>
              [] domain = "database" -> <<"postgres_query", "shell_exec", "file_read">>
              [] domain = "api"      -> <<"web_fetch", "shell_exec", "file_read", "file_write">>
              [] domain = "frontend" -> <<"file_read", "file_write", "shell_exec", "web_fetch">>
              [] domain = "backend"  -> <<"file_read", "file_write", "shell_exec", "postgres_query">>
              [] domain = "devops"   -> <<"shell_exec", "file_read", "file_write">>
              [] domain = "research" -> <<"web_search", "web_fetch", "file_write">>
              [] domain = "testing"  -> <<"shell_exec", "file_read">>
              [] OTHER -> availableTools
    IN  filter(domainTools, availableTools)

\* A PlannedTask (types.ts); description is opaque text and is left out,
\* inputs is represented by its `domain` member ("" when it has none).
PlannedTask(role, domain, dependencies, toolList, context_tags) ==
    [role |-> role, domain |-> domain, dependencies |-> dependencies,
     tools |-> toolList, context_tags |-> context_tags]

Phase(name, phaseTasks, parallel) ==
    [name |-> name, tasks |-> phaseTasks, parallel |-> parallel]

AnalystRole(domain) == "domain_analyst"

\* developers that all carry the role of the architecture task
DeveloperRole_Architect(domain) == "architect"

DeveloperRole(domain) == domain \o "_developer"

createMultiDomainPlan(complexity, availableTools) ==
    LET doms == complexity.domains
        analysisTasks ==
            [i \in 1..Len(doms) |->
                PlannedTask(AnalystRole(doms[i]), doms[i], <<>>,
                            getToolsForDomain(doms[i], availableTools), <<>>)]
        implTasks ==
            [i \in 1..Len(doms) |->
                PlannedTask(DeveloperRole(doms[i]), doms[i], <<"architect">>,
                            getToolsForDomain(doms[i], availableTools),
                            <<"architecture">>)]
    IN  << Phase("Domain Analysis", analysisTasks, TRUE),
           Phase("Architecture Planning",
                 << PlannedTask("architect", "",
                        [i \in 1..Len(analysisTasks) |-> analysisTasks[i].role],
                        filter(<<"file_read", "file_write">>, availableTools),
                        <<"domain_analysis">>) >>,
                 FALSE),
           Phase("Parallel Implementation", implTasks, TRUE) >>

createLargeTaskPlan(complexity, availableTools) ==
    << Phase("Research & Planning",
             << PlannedTask("researcher", "", <<>>,
                    filter(<<"web_search", "web_fetch", "file_write">>, availableTools),
                    <<>>) >>,
             FALSE),
       Phase("Implementation",
             << PlannedTask("developer", "", <<"researcher">>,
                    filter(<<"file_read", "file_write", "shell_exec", "github_cli">>,
                           availableTools),
                    <<"research">>) >>,
             FALSE),
       Phase("Testing & Validation",
             << PlannedTask("tester", "", <<"developer">>,
                    filter(<<"shell_exec", "file_read">>, availableTools),
                    <<"implementation">>) >>,
             FALSE) >>

\* a standard plan whose fallback task is granted no tool
createStandardPlan_ExecutorNoTools(text, complexity, availableTools) ==
    << Phase("Execute", << PlannedTask("executor", "", <<>>, <<>>, <<>>) >>, FALSE) >>

createStandardPlan(text, complexity, availableTools) ==
    LET research ==
            IF Test(ResearchRe, text)
            THEN << Phase("Research",
                          << PlannedTask("researcher", "", <<>>,
                                 filter(<<"web_search", "web_fetch">>, availableTools),
                                 <<>>) >>,
                          FALSE) >>
            ELSE <<>>
        dependencies == IF Len(research) > 0 THEN <<"researcher">> ELSE <<>>
        build ==
            IF Test(BuildRe, text)
            THEN << Phase("Implementation",
                          << PlannedTask("developer", "", dependencies,
                                 filter(<<"file_read", "file_write", "shell_exec",
                                          "github_cli">>, availableTools),
                                 IF Len(dependencies) > 0 THEN <<"research">>
                                 ELSE <<>>) >>,
                          FALSE) >>
            ELSE <<>>
        phases == research \o build
    IN  IF Len(phases) = 0
        THEN << Phase("Execute",
                      << PlannedTask("executor", "", <<>>, availableTools, <<>>) >>,
                      FALSE) >>
        ELSE phases

createValidationPhase(availableTools) ==
    Phase("Validation",
          << PlannedTask("validator", "", <<>>,
                 filter(<<"file_read", "shell_exec">>, availableTools),
                 <<"implementation", "research">>) >>,
          FALSE)

hasSharedDependencies(phase) ==
    \E i, j \in 1..Len(phase.tasks) :
        /\ i # j
        /\ \E dep \in Range(phase.tasks[i].dependencies) :
               dep \in Range(phase.tasks[j].dependencies)

\* an optimizer that makes every phase sequential
optimizeParallelExecution_Sequential(phases) ==
    [k \in 1..Len(phases) |-> [phases[k] EXCEPT !.parallel = FALSE]]

optimizeParallelExecution(phases) ==
    [k \in 1..Len(phases) |->
        IF Len(phases[k].tasks) > 1 /\ ~hasSharedDependencies(phases[k])
        THEN [phases[k] EXCEPT !.parallel = TRUE]
        ELSE phases[k]]

generateEnhancedPlan(text, toolRows) ==
    LET complexity == analyzeTaskComplexity(text)
        availableToolNames == toolRows
        body ==
            IF complexity.scope = "enterprise" \/ Len(complexity.domains) > LargeDomains
            THEN createMultiDomainPlan(complexity, availableToolNames)
            ELSE IF complexity.scope = "large"
            THEN createLargeTaskPlan(complexity, availableToolNames)
            ELSE createStandardPlan(text, complexity, availableToolNames)
        phases ==
            IF complexity.riskLevel = "high"
            THEN Append(body, createValidationPhase(availableToolNames))
            ELSE body
    IN  [phases |-> optimizeParallelExecution(phases)]

(***************************************************************************)
(* The blackboard store (blackboard.ts over the schema).  A nullable       *)
(* column or member holds NULL or Some(v).                                 *)
(***************************************************************************)
Some(v) == <<v>>

IsNull(x) == x = <<>>

\* the rows seeded into minions.tools, in the order of `ORDER BY name`
SeedTools ==
    <<"file_read", "file_write", "github_cli", "postgres_query", "shell_exec",
      "web_fetch", "web_search">>

getTools(enabledNames) == SelectSeq(SeedTools, LAMBDA t : t \in enabledNames)

\* UPDATE ... SET key = value for every member of `updates`
SetColumns(row, updates) ==
    [f \in DOMAIN row |-> IF f \in DOMAIN updates THEN updates[f] ELSE row[f]]

createRun(rs, text) ==
    Append(rs, [task |-> text, plan |-> NULL, status |-> "pending",
                result |-> NULL, error |-> NULL])

updateRun(rs, id, updates) ==
    [r \in DOMAIN rs |-> IF r = id THEN SetColumns(rs[r], updates) ELSE rs[r]]

createTask(ts, t) ==
    Append(ts, [run_id |-> t.run_id, role |-> t.role, domain |-> t.domain,
                dependencies |-> t.dependencies, status |-> "pending",
                result |-> NULL, confidence |-> NULL, error |-> NULL,
                retry_count |-> 0])

updateTask(ts, id, updates) ==
    [t \in DOMAIN ts |-> IF t = id THEN SetColumns(ts[t], updates) ELSE ts[t]]

\* a conflict target of (key) instead of (run_id, key)
Conflicts_KeyOnly(row, e) == row.key = e.key

Conflicts(row, e) == row.run_id = e.run_id /\ row.key = e.key

\* JSON.stringify of a string document: the text between double quotes
stringify(value) == "\"" \o value \o "\""

\* the document a jsonb column gives back for the parameter $3::jsonb
jsonb(text) == SubSeq(text, 2, Len(text) - 1)

InsertedRow(id, at, e) ==
    [id |-> id, run_id |-> e.run_id, key |-> e.key,
     value |-> jsonb(stringify(e.value)),
     written_by |-> e.written_by, tags |-> e.tags, entity_ids |-> e.entity_ids,
     created_at |-> at, version |-> 1]

\* an upsert whose SET list lacks value = EXCLUDED.value
UpdatedRow_KeepValue(row, at, e) ==
    [row EXCEPT !.written_by = e.written_by,
                !.tags = e.tags, !.entity_ids = e.entity_ids,
                !.version = row.version + 1, !.created_at = at]

\* an upsert whose SET list lacks tags = EXCLUDED.tags
UpdatedRow_KeepTags(row, at, e) ==
    [row EXCEPT !.value = jsonb(stringify(e.value)), !.written_by = e.written_by,
                !.entity_ids = e.entity_ids,
                !.version = row.version + 1, !.created_at = at]

UpdatedRow(row, at, e) ==
    [row EXCEPT !.value = jsonb(stringify(e.value)), !.written_by = e.written_by,
                !.tags = e.tags, !.entity_ids = e.entity_ids,
                !.version = row.version + 1, !.created_at = at]

\* a plain INSERT, without the ON CONFLICT clause
writeEntry_AlwaysInsert(es, id, at, e) == es \cup {InsertedRow(id, at, e)}

\* INSERT ... ON CONFLICT (run_id, key) DO UPDATE SET ...: one atomic statement
writeEntry(es, id, at, e) ==
    IF \E row \in es : Conflicts(row, e)
    THEN {IF Conflicts(row, e) THEN UpdatedRow(row, at, e) ELSE row : row \in es}
    ELSE es \cup {InsertedRow(id, at, e)}

\* RETURNING id
writtenId(es, e) == (CHOOSE row \in es : Conflicts(row, e)).id

RECURSIVE OrderByCreatedAt(_)
OrderByCreatedAt(rows) ==
    IF rows = {} THEN <<>>
    ELSE LET first == CHOOSE r \in rows :
                          \A o \in rows : \/ r = o
                                          \/ r.created_at < o.created_at
                                          \/ (r.created_at = o.created_at /\ r.id < o.id)
         IN  <<first>> \o OrderByCreatedAt(rows \ {first})

Limit(s, n) == IF n > 0 /\ Len(s) > n THEN SubSeq(s, 1, n) ELSE s

\* a query without the WHERE run_id = $1 condition
queryEntries_AnyRun(es, runId, opts) ==
    Limit(OrderByCreatedAt({row \in es :
              opts.tags # {} => row.tags \cap opts.tags # {}}), opts.limit)

\* a query that leaves out the written_by and entity_ids conditions
queryEntries_TagsOnly(es, runId, opts) ==
    Limit(OrderByCreatedAt({row \in es :
              /\ row.run_id = runId
              /\ (opts.tags # {} => row.tags \cap opts.tags # {})}), opts.limit)

\* opts: tags and entity_ids are sets ({} when absent or empty), written_by is
\* NULL or Some(role), limit is 0 when absent
queryEntries(es, runId, opts) ==
    LET hit(row) ==
            /\ row.run_id = runId
            /\ (opts.tags # {} => row.tags \cap opts.tags # {})
            /\ (~IsNull(opts.written_by) => Some(row.written_by) = opts.written_by)
            /\ (opts.entity_ids # {} => row.entity_ids \cap opts.entity_ids # {})
    IN  Limit(OrderByCreatedAt({row \in es : hit(row)}), opts.limit)

NoOpts == [tags |-> {}, written_by |-> NULL, entity_ids |-> {}, limit |-> 0]

saveArtifact(as, a) == Append(as, a)

getTasksByRun(ts, runId) == SelectSeq(ts, LAMBDA t : t.run_id = runId)

\* getReadyTasks compares dep_id, an element of the UUID[] column dependencies,
\* with the rows of SELECT id::text: the operand types of its NOT IN
DepIdType == "uuid"

CompletedIdType == "text"

\* PostgreSQL picks the = of a comparison by the operand types and applies
\* implicit casts only; there is none between uuid and text
HasEqualityOperator(left, right) == left = right

\* the ids of the rows the statement of getReadyTasks selects, or the error
\* the statement is refused with
getReadyTasks(ts, runId) ==
    LET completed == {id \in DOMAIN ts :
                         ts[id].run_id = runId /\ ts[id].status = "completed"}
        ready(id) ==
            /\ ts[id].run_id = runId
            /\ ts[id].status = "pending"
            /\ ~\E i \in 1..Len(ts[id].dependencies) :
                    ts[id].dependencies[i] \notin completed
    IN  IF HasEqualityOperator(DepIdType, CompletedIdType)
        THEN [error |-> NULL, rows |-> {id \in DOMAIN ts : ready(id)}]
        ELSE [error |-> Some("operator does not exist: uuid = text"), rows |-> {}]

\* the bookkeeping of the writeEntry calls applied to one (run, key)
NoCalls == [n |-> 0, first |-> NULL, last |-> NULL]

CallsOf(cs, pair) == IF pair \in DOMAIN cs THEN cs[pair] ELSE NoCalls

RecordCall(cs, e, id) ==
    LET pair == <<e.run_id, e.key>>
        old == CallsOf(cs, pair)
    IN  (pair :> [n |-> old.n + 1,
                  first |-> IF old.n = 0 THEN Some(id) ELSE old.first,
                  last |-> Some(e)]) @@ cs

(***************************************************************************)
(* The external executor (agent.ts).  A confidence is given in tenths.     *)
(***************************************************************************)
BlackboardWrite(key, value, tags) ==
    [key |-> key, value |-> value, tags |-> tags, entity_ids |-> {}]

AgentResult(success, data, writes, files, confidence, error) ==
    [success |-> success, data |-> data, entries |-> writes,
     artifacts |-> files, confidence |-> confidence, error |-> error]

\* executeAgent, catch of an AbortError
TimeoutResult ==
    AgentResult(FALSE, NULL, <<>>, <<>>, 0, Some("Agent timed out"))

\* the result blocks the external model may answer with (parseAgentOutput
\* returns the parsed block as it is); the entry keys are the model's
\* choice: two blocks use the same key, and one key starts with a role name
ParsedResults ==
    { AgentResult(TRUE, Some("report"),
                  << BlackboardWrite("findings", "A", {"research"}) >>,
                  <<>>, 9, NULL),
      AgentResult(TRUE, Some("design"),
                  << BlackboardWrite("findings", "B", {"architecture"}),
                     BlackboardWrite("developer:findings", "A", {"domain_analysis"}) >>,
                  << [name |-> "out.md", content_type |-> "text/markdown"] >>,
                  5, NULL),
      AgentResult(FALSE, NULL, <<>>, <<>>, 2, Some("cannot complete")) }

AgentResults == ParsedResults \cup {TimeoutResult}

(***************************************************************************)
(* Orchestrator.run and Orchestrator.executeTask                           *)
(***************************************************************************)
MaxStoreFailures == 1

\* the task texts given to run(): one for every path of the planner that a
\* short text takes (standard plans with a researcher, a developer or both,
\* a validation phase, multi-domain plans of one and of two domains)
TaskTexts ==
    {"research", "create", "research create", "delete", "create delete",
     "enterprise", "enterprise delete", "enterprise postgrest"}

StoreError == "store error"

CanFail == failures.read + failures.write < MaxStoreFailures

Failed(kind) == [failures EXCEPT ![kind] = @ + 1]

\* the run id returned by createRun
RunId == Len(runs)

IdleInv ==
    [pc |-> "idle", result |-> NULL, k |-> 0, error |-> NULL,
     context |-> NULL, final |-> NULL]

InitStore ==
    /\ enabled = Range(SeedTools)
    /\ runs = <<>>
    /\ tasks = <<>>
    /\ entries = {}
    /\ artifacts = <<>>
    /\ now = 0
    /\ nextId = 0
    /\ calls = <<>>
    /\ failures = [read |-> 0, write |-> 0]
    /\ executions = <<>>

InitRun ==
    /\ pc = "start"
    /\ tools = <<>>
    /\ plan = NULL
    /\ taskIdMap = <<>>
    /\ mi = <<1, 1>>
    /\ ph = 0
    /\ inv = <<>>
    /\ thrown = NULL

Init ==
    /\ task \in TaskTexts
    /\ apiKey \in BOOLEAN
    /\ InitStore
    /\ InitRun

storeVars == <<enabled, runs, tasks, entries, artifacts, now, nextId, calls>>

runLocals == <<tools, plan, taskIdMap, mi, ph, inv>>

\* an error thrown inside run's try block reaches its catch
Caught(kind) ==
    /\ CanFail
    /\ failures' = Failed(kind)
    /\ pc' = "catch"
    /\ thrown' = Some(StoreError)

CreateRunOk ==
    /\ pc = "start"
    /\ runs' = createRun(runs, task)
    /\ pc' = "created"
    /\ UNCHANGED <<task, enabled, tasks, entries, artifacts, now, nextId, calls,
                   runLocals, thrown, apiKey, executions, failures>>

\* createRun is awaited before the try block: its error leaves run at once
CreateRunFails ==
    /\ pc = "start"
    /\ CanFail
    /\ failures' = Failed("write")
    /\ pc' = "thrown"
    /\ thrown' = Some(StoreError)
    /\ UNCHANGED <<task, storeVars, runLocals, apiKey, executions>>

\* a first update that skips the planning status
PlanningUpdates_Running == [status |-> "running"]

PlanningUpdates == [status |-> "planning"]

UpdateRunPlanning ==
    /\ pc = "created"
    /\ \/ /\ runs' = updateRun(runs, RunId, PlanningUpdates)
          /\ pc' = "getTools"
          /\ UNCHANGED <<thrown, failures>>
       \/ /\ Caught("write")
          /\ UNCHANGED runs
    /\ UNCHANGED <<task, enabled, tasks, entries, artifacts, now, nextId, calls,
                   runLocals, apiKey, executions>>

GetTools ==
    /\ pc = "getTools"
    /\ \/ /\ tools' = getTools(enabled)
          /\ pc' = "plan"
          /\ UNCHANGED <<thrown, failures>>
       \/ /\ Caught("read")
          /\ UNCHANGED tools
    /\ UNCHANGED <<task, storeVars, plan, taskIdMap, mi, ph, inv, apiKey, executions>>

\* an update to running that leaves the plan out
RunningUpdates_NoPlan(p) == [status |-> "running"]

RunningUpdates(p) == [status |-> "running", plan |-> Some(p)]

\* generateEnhancedPlan, then updateRun(status running, plan)
PlanRun ==
    /\ pc = "plan"
    /\ plan' = generateEnhancedPlan(task, tools)
    /\ \/ /\ runs' = updateRun(runs, RunId, RunningUpdates(plan'))
          /\ pc' = "materialize"
          /\ UNCHANGED <<thrown, failures>>
       \/ /\ Caught("write")
          /\ UNCHANGED runs
    /\ UNCHANGED <<task, enabled, tasks, entries, artifacts, now, nextId, calls,
                   tools, taskIdMap, mi, ph, inv, apiKey, executions>>

\* planned.dependencies.map(dep => taskIdMap.get(dep)).filter(id => !!id)
depIds(planned, idMap) ==
    LET found == SelectSeq(planned.dependencies, LAMBDA dep : dep \in DOMAIN idMap)
    IN  [i \in 1..Len(found) |-> idMap[found[i]]]

\* a materialization that ends with the last task of the first phase
NextPlanned_FirstPhaseOnly(at) ==
    IF at[2] < Len(plan.phases[at[1]].tasks) THEN <<at[1], at[2] + 1>>
    ELSE <<Len(plan.phases) + 1, 1>>

NextPlanned(at) ==
    IF at[2] < Len(plan.phases[at[1]].tasks) THEN <<at[1], at[2] + 1>>
    ELSE <<at[1] + 1, 1>>

\* one iteration of the materialization loops: createTask, taskIdMap.set
CreateTask ==
    /\ pc = "materialize"
    /\ LET planned == plan.phases[mi[1]].tasks[mi[2]]
       IN  \/ /\ tasks' = createTask(tasks,
                              [run_id |-> RunId, role |-> planned.role,
                               domain |-> planned.domain,
                               dependencies |-> depIds(planned, taskIdMap)])
              /\ taskIdMap' = (planned.role :> Len(tasks')) @@ taskIdMap
              /\ mi' = NextPlanned(mi)
              /\ IF mi'[1] > Len(plan.phases)
                 THEN pc' = "phase" /\ ph' = 1
                 ELSE UNCHANGED <<pc, ph>>
              /\ UNCHANGED <<thrown, failures>>
           \/ /\ Caught("write")
              /\ UNCHANGED <<tasks, taskIdMap, mi, ph>>
    /\ UNCHANGED <<task, enabled, runs, entries, artifacts, now, nextId, calls,
                   tools, plan, inv, apiKey, executions>>

\* executeTask up to its first await: the task id lookup
Enter(planned) ==
    IF planned.role \in DOMAIN taskIdMap
    THEN [IdleInv EXCEPT !.pc = "start"]
    ELSE [IdleInv EXCEPT !.pc = "done"]

\* a phase loop that takes the Promise.all branch for every phase
DispatchPhase_AllAtOnce ==
    /\ pc = "phase"
    /\ inv' = [j \in 1..Len(plan.phases[ph].tasks) |-> Enter(plan.phases[ph].tasks[j])]
    /\ pc' = "await"
    /\ UNCHANGED <<task, storeVars, tools, plan, taskIdMap, mi, ph, thrown,
                   apiKey, executions, failures>>

\* a parallel phase calls executeTask for every task (Promise.all over map),
\* a sequential phase for its first task
DispatchPhase ==
    /\ pc = "phase"
    /\ LET phase == plan.phases[ph]
       IN  inv' = [j \in 1..Len(phase.tasks) |->
                      IF phase.parallel \/ j = 1 THEN Enter(phase.tasks[j])
                      ELSE IdleInv]
    /\ pc' = "await"
    /\ UNCHANGED <<task, storeVars, tools, plan, taskIdMap, mi, ph, thrown,
                   apiKey, executions, failures>>

Planned(j) == plan.phases[ph].tasks[j]

TaskIdOf(j) == taskIdMap[Planned(j).role]

\* a phase that does not await its executeTask calls
Settled_NotAwaited(j) == TRUE

Settled(j) == inv[j].pc = "done"

\* the task of a sequential phase that was called last
Current == CHOOSE j \in DOMAIN inv :
               inv[j].pc # "idle" /\ \A i \in DOMAIN inv : i > j => inv[i].pc = "idle"

NextPhase ==
    /\ inv' = <<>>
    /\ IF ph < Len(plan.phases)
       THEN ph' = ph + 1 /\ pc' = "phase"
       ELSE ph' = ph /\ pc' = "collect"

\* Promise.all resolves when every executeTask has returned; the sequential
\* loop calls the next executeTask when the awaited one has returned
Advance ==
    /\ pc = "await"
    /\ IF plan.phases[ph].parallel
       THEN (\A j \in DOMAIN inv : Settled(j)) /\ NextPhase
       ELSE /\ Settled(Current)
            /\ IF Current < Len(inv)
               THEN /\ inv' = [inv EXCEPT ![Current + 1] = Enter(Planned(Current + 1))]
                    /\ UNCHANGED <<pc, ph>>
               ELSE NextPhase
    /\ UNCHANGED <<task, storeVars, tools, plan, taskIdMap, mi, thrown, apiKey, executions,
                   failures>>

\* executeTask rejects: Promise.all (or the awaiting loop) rejects with the
\* first rejection and run's catch takes over; later rejections are dropped
Rejects(j, kind) ==
    /\ CanFail
    /\ failures' = Failed(kind)
    /\ inv' = [inv EXCEPT ![j] = [IdleInv EXCEPT !.pc = "rejected"]]
    /\ IF pc = "await"
       THEN pc' = "catch" /\ thrown' = Some(StoreError)
       ELSE UNCHANGED <<pc, thrown>>

\* an error thrown inside executeTask's try block reaches its catch
TaskCaught(j, kind, message) ==
    /\ failures' = Failed(kind)
    /\ inv' = [inv EXCEPT ![j] = [IdleInv EXCEPT !.pc = "catch",
                                                  !.error = Some(message)]]

StartedUpdates == [status |-> "running"]

TaskStart(j) ==
    /\ inv[j].pc = "start"
    /\ \/ /\ tasks' = updateTask(tasks, TaskIdOf(j), StartedUpdates)
          /\ inv' = [inv EXCEPT ![j].pc =
                        IF Len(Planned(j).context_tags) > 0 THEN "context"
                        ELSE "agent",
                                ![j].context = Some(<<>>)]
          /\ UNCHANGED <<pc, thrown, failures>>
       \/ /\ Rejects(j, "write")
          /\ UNCHANGED tasks
    /\ UNCHANGED <<task, enabled, runs, entries, artifacts, now, nextId, calls,
                   tools, plan, taskIdMap, mi, ph, apiKey, executions>>

ContextLimit == 20

ContextOpts(planned) ==
    [tags |-> Range(planned.context_tags), written_by |-> NULL,
     entity_ids |-> {}, limit |-> ContextLimit]

Keys(rows) == [i \in 1..Len(rows) |-> rows[i].key]

TaskContext(j) ==
    /\ inv[j].pc = "context"
    /\ \/ /\ inv' = [inv EXCEPT ![j].pc = "agent",
                                ![j].context =
                                    Some(Keys(queryEntries(entries, RunId,
                                                           ContextOpts(Planned(j)))))]
          /\ UNCHANGED failures
       \/ /\ CanFail
          /\ TaskCaught(j, "read", StoreError)
    /\ UNCHANGED <<task, storeVars, pc, tools, plan, taskIdMap, mi, ph, thrown,
                   apiKey, executions>>

\* an executeTask that goes from the agent's result to the terminal update
AfterAgent_SkipEntries(result) == "final"

AfterAgent(result) ==
    IF Len(result.entries) > 0 THEN "entries"
    ELSE IF Len(result.artifacts) > 0 THEN "artifacts"
    ELSE "final"

\* executeAgent resolves with a result, or throws when no API key is set
TaskAgent(j) ==
    /\ inv[j].pc = "agent"
    /\ IF apiKey
       THEN \E result \in AgentResults :
                inv' = [inv EXCEPT ![j] = [IdleInv EXCEPT !.pc = AfterAgent(result),
                                                          !.result = Some(result),
                                                          !.k = 1]]
       ELSE inv' = [inv EXCEPT ![j] =
                       [IdleInv EXCEPT !.pc = "catch",
                                       !.error = Some("ANTHROPIC_API_KEY is required")]]
    /\ executions' = Append(executions, TaskIdOf(j))
    /\ UNCHANGED <<task, storeVars, pc, tools, plan, taskIdMap, mi, ph, thrown,
                   apiKey, failures>>

\* an entry stored under the key the executor returned
EntryKey_Bare(role, key) == key

EntryKey(role, key) == role \o ":" \o key

EntryOf(planned, entry) ==
    [run_id |-> RunId, key |-> EntryKey(planned.role, entry.key),
     value |-> entry.value, written_by |-> planned.role, tags |-> entry.tags,
     entity_ids |-> entry.entity_ids]

\* the statement of writeEntry applied to the store
ApplyWrite(e) ==
    /\ entries' = writeEntry(entries, nextId + 1, now + 1, e)
    /\ now' = now + 1
    /\ nextId' = IF \E row \in entries : Conflicts(row, e) THEN nextId
                 ELSE nextId + 1
    /\ calls' = RecordCall(calls, e, writtenId(entries', e))

TaskWriteEntry(j) ==
    /\ inv[j].pc = "entries"
    /\ LET result == inv[j].result[1]
           k == inv[j].k
       IN  \/ /\ ApplyWrite(EntryOf(Planned(j), result.entries[k]))
              /\ inv' = [inv EXCEPT
                            ![j].pc = IF k < Len(result.entries) THEN "entries"
                                      ELSE IF Len(result.artifacts) > 0 THEN "artifacts"
                                      ELSE "final",
                            ![j].k = IF k < Len(result.entries) THEN k + 1 ELSE 1]
              /\ UNCHANGED failures
           \/ /\ CanFail
              /\ TaskCaught(j, "write", StoreError)
              /\ UNCHANGED <<entries, now, nextId, calls>>
    /\ UNCHANGED <<task, enabled, runs, tasks, artifacts, pc, tools, plan,
                   taskIdMap, mi, ph, thrown, apiKey, executions>>

TaskSaveArtifact(j) ==
    /\ inv[j].pc = "artifacts"
    /\ LET result == inv[j].result[1]
           k == inv[j].k
       IN  \/ /\ artifacts' = saveArtifact(artifacts,
                                  [run_id |-> RunId, task_id |-> TaskIdOf(j),
                                   name |-> result.artifacts[k].name])
              /\ inv' = [inv EXCEPT
                            ![j].pc = IF k < Len(result.artifacts) THEN "artifacts"
                                      ELSE "final",
                            ![j].k = IF k < Len(result.artifacts) THEN k + 1 ELSE 1]
              /\ UNCHANGED failures
           \/ /\ CanFail
              /\ TaskCaught(j, "write", StoreError)
              /\ UNCHANGED artifacts
    /\ UNCHANGED <<task, enabled, runs, tasks, entries, now, nextId, calls, pc,
                   tools, plan, taskIdMap, mi, ph, thrown, apiKey, executions>>

FinalUpdates(result) ==
    [status |-> IF result.success THEN "completed" ELSE "failed",
     result |-> result.data,
     confidence |-> Some(result.confidence),
     error |-> result.error]

Returned(status) == [IdleInv EXCEPT !.pc = "done", !.final = Some(status)]

TaskFinish(j) ==
    /\ inv[j].pc = "final"
    /\ LET updates == FinalUpdates(inv[j].result[1])
       IN  \/ /\ tasks' = updateTask(tasks, TaskIdOf(j), updates)
              /\ inv' = [inv EXCEPT ![j] = Returned(updates.status)]
              /\ UNCHANGED failures
           \/ /\ CanFail
              /\ TaskCaught(j, "write", StoreError)
              /\ UNCHANGED tasks
    /\ UNCHANGED <<task, enabled, runs, entries, artifacts, now, nextId, calls,
                   pc, tools, plan, taskIdMap, mi, ph, thrown, apiKey, executions>>

CatchUpdates(error) == [status |-> "failed", error |-> error]

\* the catch block of executeTask; its own updateTask is not guarded
TaskCatch(j) ==
    /\ inv[j].pc = "catch"
    /\ \/ /\ tasks' = updateTask(tasks, TaskIdOf(j), CatchUpdates(inv[j].error))
          /\ inv' = [inv EXCEPT ![j] = Returned("failed")]
          /\ UNCHANGED <<pc, thrown, failures>>
       \/ /\ Rejects(j, "write")
          /\ UNCHANGED tasks
    /\ UNCHANGED <<task, enabled, runs, entries, artifacts, now, nextId, calls,
                   tools, plan, taskIdMap, mi, ph, apiKey, executions>>

\* a report with a section for every task, whatever its status
synthesize_SectionPerTask(allTasks, allEntries) ==
    LET succeeded == SelectSeq(allTasks, LAMBDA t : t.status = "completed")
        failed == SelectSeq(allTasks, LAMBDA t : t.status = "failed")
    IN  [succeeded |-> Len(succeeded),
         total |-> Len(allTasks),
         sections |-> [i \in 1..Len(allTasks) |-> allTasks[i].role],
         failures |-> [i \in 1..Len(failed) |-> <<failed[i].role, failed[i].error>>]]

\* Orchestrator.synthesize: the counts, the sections and the failure list
synthesize(allTasks, allEntries) ==
    LET succeeded == SelectSeq(allTasks, LAMBDA t : t.status = "completed")
        failed == SelectSeq(allTasks, LAMBDA t : t.status = "failed")
    IN  [succeeded |-> Len(succeeded),
         total |-> Len(allTasks),
         sections |-> [i \in 1..Len(succeeded) |-> succeeded[i].role],
         failures |-> [i \in 1..Len(failed) |-> <<failed[i].role, failed[i].error>>]]

\* getTasksByRun and queryEntries(runId)
CollectResults ==
    /\ pc = "collect"
    /\ \/ /\ pc' = "complete"
          /\ UNCHANGED <<thrown, failures>>
       \/ Caught("read")
    /\ UNCHANGED <<task, storeVars, runLocals, apiKey, executions>>

RunResult ==
    LET allTasks == getTasksByRun(tasks, RunId)
        allEntries == queryEntries(entries, RunId, NoOpts)
    IN  [tasks |-> [i \in 1..Len(allTasks) |->
                       [role |-> allTasks[i].role, status |-> allTasks[i].status]],
         entries |-> Keys(allEntries),
         summary |-> synthesize(allTasks, allEntries)]

\* a completion update that leaves the result out
CompletedUpdates_NoResult(result) == [status |-> "completed"]

CompletedUpdates(result) == [status |-> "completed", result |-> Some(result)]

CompleteRun ==
    /\ pc = "complete"
    /\ \/ /\ runs' = updateRun(runs, RunId, CompletedUpdates(RunResult))
          /\ pc' = "returned"
          /\ UNCHANGED <<thrown, failures>>
       \/ /\ Caught("write")
          /\ UNCHANGED runs
    /\ UNCHANGED <<task, enabled, tasks, entries, artifacts, now, nextId, calls,
                   runLocals, apiKey, executions>>

FailedUpdates(error) == [status |-> "failed", error |-> error]

\* the catch block of run: updateRun(status failed, error), then rethrow
RunCatch ==
    /\ pc = "catch"
    /\ pc' = "thrown"
    /\ \/ /\ runs' = updateRun(runs, RunId, FailedUpdates(thrown))
          /\ UNCHANGED <<thrown, failures>>
       \/ /\ CanFail
          /\ failures' = Failed("write")
          /\ thrown' = Some(StoreError)
          /\ UNCHANGED runs
    /\ UNCHANGED <<task, enabled, tasks, entries, artifacts, now, nextId, calls,
                   runLocals, apiKey, executions>>

Next ==
    \/ CreateRunOk
    \/ CreateRunFails
    \/ UpdateRunPlanning
    \/ GetTools
    \/ PlanRun
    \/ CreateTask
    \/ DispatchPhase
    \/ Advance
    \/ CollectResults
    \/ CompleteRun
    \/ RunCatch
    \/ \E j \in DOMAIN inv : TaskStart(j)
    \/ \E j \in DOMAIN inv : TaskContext(j)
    \/ \E j \in DOMAIN inv : TaskAgent(j)
    \/ \E j \in DOMAIN inv : TaskWriteEntry(j)
    \/ \E j \in DOMAIN inv : TaskSaveArtifact(j)
    \/ \E j \in DOMAIN inv : TaskFinish(j)
    \/ \E j \in DOMAIN inv : TaskCatch(j)

Spec == Init /\ [][Next]_vars

(***************************************************************************)
(* The blackboard on its own: any caller, any sequence of createRun and    *)
(* writeEntry calls.                                                       *)
(***************************************************************************)
MaxRuns == 2

MaxWrites == 3

BBKeys == {"k", "researcher:findings"}

BBValues == {"A", "B"}

BBAuthors == {"researcher", "developer"}

BBTags == {{}, {"research"}}

InitBB ==
    /\ task = "research"
    /\ apiKey = TRUE
    /\ InitStore
    /\ InitRun

BBCreateRun ==
    /\ Len(runs) < MaxRuns
    /\ runs' = createRun(runs, task)
    /\ UNCHANGED <<task, enabled, tasks, entries, artifacts, now, nextId, calls,
                   pc, runLocals, thrown, apiKey, executions, failures>>

BBWriteEntry ==
    /\ now < MaxWrites
    /\ \E r \in DOMAIN runs, key \in BBKeys, value \in BBValues,
          by \in BBAuthors, tags \in BBTags :
           ApplyWrite([run_id |-> r, key |-> key, value |-> value,
                       written_by |-> by, tags |-> tags, entity_ids |-> {}])
    /\ UNCHANGED <<task, enabled, runs, tasks, artifacts, pc, runLocals, thrown,
                   apiKey, executions, failures>>

NextBB == BBCreateRun \/ BBWriteEntry

SpecBB == InitBB /\ [][NextBB]_vars

(***************************************************************************)
(* Orchestrator.run over any plan of the ExecutionPlan type: the plan the  *)
(* enhanced planner builds for the task, or a plan of another builder.     *)
(* The store already holds an earlier run and an entry of it.              *)
(***************************************************************************)
OldRun ==
    [task |-> "old", plan |-> NULL, status |-> "failed", result |-> NULL,
     error |-> Some("old error")]

OldEntry ==
    [run_id |-> 1, key |-> "old:findings", value |-> "A", written_by |-> "old",
     tags |-> {"research", "domain_analysis", "architecture"}, entity_ids |-> {}]

\* one sequential phase of two tasks, the second reading the first's entries
SequentialPlan ==
    [phases |->
        << Phase("Draft and review",
                 << PlannedTask("writer", "", <<>>, <<>>, <<>>),
                    PlannedTask("reviewer", "", <<"writer">>, <<>>, <<"research">>) >>,
                 FALSE) >>]

\* a task that names a role of a later phase and a role of no task
ForwardPlan ==
    [phases |->
        << Phase("Build",
                 << PlannedTask("builder", "", <<"tester", "ghost">>, <<>>, <<>>) >>,
                 FALSE),
           Phase("Test",
                 << PlannedTask("tester", "", <<"builder">>, <<>>, <<"research">>) >>,
                 FALSE) >>]

GivenPlans == {SequentialPlan, ForwardPlan}

InitExec ==
    /\ task = "enterprise postgrest"
    /\ apiKey \in BOOLEAN
    /\ enabled = Range(SeedTools)
    /\ runs = <<OldRun>>
    /\ tasks = <<>>
    /\ entries = {InsertedRow(1, 0, OldEntry)}
    /\ artifacts = <<>>
    /\ now = 0
    /\ nextId = 1
    /\ calls = RecordCall(<<>>, OldEntry, 1)
    /\ failures = [read |-> 0, write |-> 0]
    /\ executions = <<>>
    /\ InitRun

\* the plan handed to run: generateEnhancedPlan's or a given one
PlanGiven ==
    /\ pc = "plan"
    /\ plan' \in GivenPlans \cup {generateEnhancedPlan(task, tools)}
    /\ \/ /\ runs' = updateRun(runs, RunId, RunningUpdates(plan'))
          /\ pc' = "materialize"
          /\ UNCHANGED <<thrown, failures>>
       \/ /\ Caught("write")
          /\ UNCHANGED runs
    /\ UNCHANGED <<task, enabled, tasks, entries, artifacts, now, nextId, calls,
                   tools, taskIdMap, mi, ph, inv, apiKey, executions>>

NextExec ==
    \/ CreateRunOk
    \/ CreateRunFails
    \/ UpdateRunPlanning
    \/ GetTools
    \/ PlanGiven
    \/ CreateTask
    \/ DispatchPhase
    \/ Advance
    \/ CollectResults
    \/ CompleteRun
    \/ RunCatch
    \/ \E j \in DOMAIN inv : TaskStart(j)
    \/ \E j \in DOMAIN inv : TaskContext(j)
    \/ \E j \in DOMAIN inv : TaskAgent(j)
    \/ \E j \in DOMAIN inv : TaskWriteEntry(j)
    \/ \E j \in DOMAIN inv : TaskSaveArtifact(j)
    \/ \E j \in DOMAIN inv : TaskFinish(j)
    \/ \E j \in DOMAIN inv : TaskCatch(j)

SpecExec == InitExec /\ [][NextExec]_vars

(***************************************************************************)
(* Properties                                                              *)
(***************************************************************************)
Terminal(status) == status \in {"completed", "failed"}

\* task ids are given in plan order: the ids of the tasks of phases 1..k
RECURSIVE LastIdOf(_)
LastIdOf(k) == IF k = 0 THEN 0 ELSE LastIdOf(k - 1) + Len(plan.phases[k].tasks)

PhaseOf(id) ==
    CHOOSE k \in 1..Len(plan.phases) : LastIdOf(k - 1) < id /\ id <= LastIdOf(k)

RowsOf(es, pair) == {row \in es : <<row.run_id, row.key>> = pair}

VersionIn(es, pair) ==
    IF RowsOf(es, pair) = {} THEN 0
    ELSE (CHOOSE row \in RowsOf(es, pair) : TRUE).version

\* the (run, key) pairs a step applies a writeEntry to
WrittenPairs == {pair \in DOMAIN calls' : CallsOf(calls', pair) # CallsOf(calls, pair)}

\* C1.  Phase barrier: no task record goes from pending to running while a
\* task record of an earlier phase of the plan is still pending or running.
C1_PhaseBarrier ==
    [][\A id \in DOMAIN tasks :
          (tasks[id].status = "pending" /\ tasks'[id].status = "running")
          => \A other \in DOMAIN tasks :
                 PhaseOf(other) < PhaseOf(id) => Terminal(tasks[other].status)]_vars

\* C2.  Every task record follows pending -> running -> {completed, failed}
\* and nothing else: a status only changes along these edges, a 'started'
\* update is applied to a pending record only and a terminal update to a
\* running record only (so a record gets one of each, in this order).
C2_TaskStateMachine ==
    [][/\ \A id \in DOMAIN tasks :
             tasks'[id].status # tasks[id].status
             => <<tasks[id].status, tasks'[id].status>> \in
                    {<<"pending", "running">>, <<"running", "completed">>,
                     <<"running", "failed">>}
       /\ \A j \in DOMAIN inv :
             /\ (inv[j].pc = "start" /\ inv'[j].pc \in {"context", "agent"})
                => tasks[TaskIdOf(j)].status = "pending"
             /\ (inv[j].pc \in {"final", "catch"} /\ inv'[j].pc = "done")
                => tasks[TaskIdOf(j)].status = "running"]_vars

\* C3.  The roles of the planned tasks of a plan, and so of the task records
\* of a run, are pairwise distinct.
C3_UniqueRoles ==
    /\ \A a, b \in DOMAIN tasks :
           (a # b /\ tasks[a].run_id = tasks[b].run_id)
           => tasks[a].role # tasks[b].role
    /\ plan # NULL =>
           \A k, m \in 1..Len(plan.phases) :
               \A i \in 1..Len(plan.phases[k].tasks), j \in 1..Len(plan.phases[m].tasks) :
                   <<k, i>> # <<m, j>>
                   => plan.phases[k].tasks[i].role # plan.phases[m].tasks[j].role

\* C4.  Task-level failure is isolated: when every executeTask of a parallel
\* phase has returned (the phase ends), each task record of the phase is
\* terminal with the status given by the result of its own external call.
C4_FailureIsolated ==
    (pc = "await" /\ plan.phases[ph].parallel /\ \A j \in DOMAIN inv : Settled(j))
    => \A j \in DOMAIN inv :
           Some(tasks[LastIdOf(ph - 1) + j].status) = inv[j].final

\* C5.  A failed store write is fatal: once a write of the run has failed,
\* run does not return normally and no further phase is dispatched.
C5_PersistenceFatal ==
    [][failures.write > 0
       => /\ pc' # "returned"
          /\ ~(pc = "phase" /\ pc' = "await")]_vars

\* C6.  Run outcomes are distinguishable: a completed run has a result and
\* no error; a failed run has an error message and no result.
C6_RunOutcomes ==
    \A r \in DOMAIN runs :
        /\ runs[r].status = "completed"
           => ~IsNull(runs[r].result) /\ IsNull(runs[r].error)
        /\ runs[r].status = "failed"
           => ~IsNull(runs[r].error) /\ IsNull(runs[r].result)

\* a run completed although every one of its (several) tasks failed
C6_Witness ==
    \E r \in DOMAIN runs :
        /\ runs[r].status = "completed"
        /\ Len(tasks) > 1
        /\ \A id \in DOMAIN tasks : tasks[id].status = "failed"
        /\ runs[r].result[1].summary.succeeded = 0

\* C7.  Every write to a (run, key) leaves a version strictly greater than
\* the one before it, and the stored value is that of this latest write.
C7_VersionGrows ==
    [][\A pair \in WrittenPairs :
          /\ VersionIn(entries', pair) > VersionIn(entries, pair)
          /\ \A row \in RowsOf(entries', pair) :
                 row.value = calls'[pair].last[1].value]_vars

\* a third write to a pair, with a value other than the stored one
C7_Witness ==
    \E row \in entries :
        /\ row.version = 3
        /\ calls[<<row.run_id, row.key>>].n = 3
        /\ row.value = "B"

\* C8.  After n >= 1 writes to a (run, key) the store holds exactly one row
\* for the pair, with the identity the first write returned and version n.
C8_OneRowVersionN ==
    \A pair \in DOMAIN calls :
        /\ Cardinality(RowsOf(entries, pair)) = 1
        /\ \A row \in RowsOf(entries, pair) :
               /\ Some(row.id) = calls[pair].first
               /\ row.version = calls[pair].n
               /\ row.value = calls[pair].last[1].value

\* key k written twice, last with B, while another row exists
C8_Witness ==
    \E row \in entries :
        /\ row.key = "k"
        /\ calls[<<row.run_id, row.key>>].n = 2
        /\ row.version = 2
        /\ row.value = "B"
        /\ row.id = 1
        /\ Cardinality(entries) = 2

\* C9.  Tasks of a parallel phase writing the same (run, key): after every
\* applied write there is one row for the key, its version is the number of
\* writes applied and one more than before, and its value, tags and author
\* are those of the write applied last.
C9_LastWriterWins ==
    [][\A pair \in WrittenPairs :
          /\ Cardinality(RowsOf(entries', pair)) = 1
          /\ \A row \in RowsOf(entries', pair) :
                 /\ row.version = calls'[pair].n
                 /\ row.version = VersionIn(entries, pair) + 1
                 /\ row.value = calls'[pair].last[1].value
                 /\ row.tags = calls'[pair].last[1].tags
                 /\ row.written_by = calls'[pair].last[1].written_by]_vars

WroteFirstEntry(j) ==
    /\ ~IsNull(inv[j].result)
    /\ Len(inv[j].result[1].entries) > 0
    /\ \/ inv[j].pc = "entries" /\ inv[j].k > 1
       \/ inv[j].pc \in {"artifacts", "final"}

\* two tasks of a parallel phase, both still executing, have each written
\* the same key, with different values
C9_Witness ==
    /\ pc = "await"
    /\ plan.phases[ph].parallel
    /\ \E i, j \in DOMAIN inv :
           /\ i # j
           /\ Planned(i).role = Planned(j).role
           /\ WroteFirstEntry(i) /\ WroteFirstEntry(j)
           /\ inv[i].result[1].entries[1].value # inv[j].result[1].entries[1].value
           /\ LET pair == <<RunId, EntryKey(Planned(i).role,
                                            inv[i].result[1].entries[1].key)>>
              IN  calls[pair].n = 2 /\ VersionIn(entries, pair) = 2

\* C10.  A writeEntry to (run, key) leaves every row of another key or of
\* another run as it was: value, tags, author, version and creation time.
C10_WriteFrame ==
    [][/\ Cardinality(WrittenPairs) <= 1
       /\ \A row \in entries :
              <<row.run_id, row.key>> \notin WrittenPairs => row \in entries']_vars

\* a second write to a pair applied while a row of the same key in another
\* run exists, which is still as its only write left it
C10_Witness ==
    \E a, b \in entries :
        /\ a.run_id # b.run_id /\ a.key = b.key
        /\ a.version = 2 /\ b.version = 1
        /\ a.created_at > b.created_at
        /\ a.value # b.value

\* the planned task a task record was created from (ids follow plan order)
PlannedOf(id) ==
    plan.phases[PhaseOf(id)].tasks[id - LastIdOf(PhaseOf(id) - 1)]

Materialized == plan # NULL /\ Len(tasks) = LastIdOf(Len(plan.phases))

\* C11.  After materialization the dependency-id list of every task record
\* has as many members as the planned task declares distinct dependency
\* roles, and every declared role is resolved to a task of the run with
\* that role.
C11_DependenciesResolved ==
    Materialized =>
        \A id \in DOMAIN tasks :
            LET declared == Range(PlannedOf(id).dependencies)
                stored == tasks[id].dependencies
            IN  /\ Len(stored) = Cardinality(declared)
                /\ \A dep \in declared :
                       \E i \in 1..Len(stored) :
                           /\ stored[i] \in DOMAIN tasks
                           /\ tasks[stored[i]].role = dep
                           /\ tasks[stored[i]].run_id = tasks[id].run_id

C13_ReadyTasks ==
    \A r \in DOMAIN runs :
        /\ IsNull(getReadyTasks(tasks, r).error)
        /\ getReadyTasks(tasks, r).rows =
               {id \in DOMAIN tasks :
                   /\ tasks[id].run_id = r
                   /\ tasks[id].status = "pending"
                   /\ \A dep \in Range(tasks[id].dependencies) :
                          /\ dep \in DOMAIN tasks
                          /\ tasks[dep].run_id = r
                          /\ tasks[dep].status = "completed"}

\* the roles of the planned tasks of the phases before the one being executed
EarlierRoles ==
    UNION {{plan.phases[k].tasks[i].role : i \in 1..Len(plan.phases[k].tasks)} :
              k \in 1..(ph - 1)}

C15_CapKeepsMostRecent ==
    \A r \in DOMAIN runs, n \in 1..MaxWrites :
        LET opts == [tags |-> {"research"}, written_by |-> NULL,
                     entity_ids |-> {}, limit |-> n]
            matching == queryEntries(entries, r, [opts EXCEPT !.limit = 0])
            capped == queryEntries(entries, r, opts)
        IN  capped = IF Len(matching) > n
                     THEN SubSeq(matching, Len(matching) - n + 1, Len(matching))
                     ELSE matching

\* C16.  Least context: a task without context tags is handed an empty
\* context whatever the store holds; a task with context tags is handed only
\* entries of its own run whose tags intersect its context tags.
C16_LeastContext ==
    [][\A j \in DOMAIN inv \cap DOMAIN inv' :
          (inv[j].pc \in {"start", "context"} /\ inv'[j].pc = "agent")
          => /\ Planned(j).context_tags = <<>> => inv'[j].context = Some(<<>>)
             /\ \A key \in Range(inv'[j].context[1]) :
                    \E row \in entries :
                        /\ row.run_id = RunId
                        /\ row.key = key
                        /\ row.tags \cap Range(Planned(j).context_tags) # {}]_vars

\* the reviewer, with context tag research, is handed the writer's findings
\* and not the entry of the earlier run, which carries that tag too
C16_Witness ==
    /\ plan = SequentialPlan
    /\ \E row \in entries : row.run_id # RunId /\ "research" \in row.tags
    /\ \E j \in DOMAIN inv :
           /\ inv[j].pc = "agent"
           /\ Planned(j).role = "reviewer"
           /\ inv[j].context = Some(<<"writer:findings">>)

\* C17.  In a phase that is not parallel the tasks run one at a time in
\* array order: at most one task record of the phase is running, and a task
\* record has left pending only if every task before it in the phase is
\* terminal.
C17_SequentialOrder ==
    Materialized =>
        \A k \in 1..Len(plan.phases) :
            ~plan.phases[k].parallel =>
                LET ids == (LastIdOf(k - 1) + 1)..LastIdOf(k)
                IN  /\ Cardinality({id \in ids : tasks[id].status = "running"}) <= 1
                    /\ \A a, b \in ids :
                           (a < b /\ tasks[b].status # "pending")
                           => Terminal(tasks[a].status)

\* the second task of a sequential phase is running after the first failed
C17_Witness ==
    /\ plan = SequentialPlan
    /\ Materialized
    /\ tasks[1].role = "writer" /\ tasks[1].status = "failed"
    /\ tasks[2].role = "reviewer" /\ tasks[2].status = "running"

TimedOut(result) == result.error = Some("Agent timed out")

\* C18.  A call of the external executor that times out yields a failure
\* result with confidence 0, no entries and no artifacts; with the terminal
\* update the record of its task has status failed, confidence 0 and the
\* error text, and executeTask returns normally: nothing is raised in run.
C18_TimeoutIsTaskFailure ==
    [][\A j \in DOMAIN inv \cap DOMAIN inv' :
          /\ (/\ inv[j].pc = "agent"
              /\ ~IsNull(inv'[j].result)
              /\ TimedOut(inv'[j].result[1]))
             => /\ ~inv'[j].result[1].success
                /\ inv'[j].result[1].confidence = 0
                /\ inv'[j].result[1].entries = <<>>
                /\ inv'[j].result[1].artifacts = <<>>
                /\ inv'[j].pc = "final"
          /\ (/\ inv[j].pc = "final"
              /\ TimedOut(inv[j].result[1])
              /\ inv'[j].pc = "done")
             => /\ tasks'[LastIdOf(ph - 1) + j].status = "failed"
                /\ tasks'[LastIdOf(ph - 1) + j].confidence = Some(0)
                /\ tasks'[LastIdOf(ph - 1) + j].error = Some("Agent timed out")
                /\ inv'[j].final = Some("failed")
                /\ UNCHANGED <<pc, thrown>>]_vars

\* the researcher timed out, the developer of the next phase completed and
\* the run returned
C18_Witness ==
    /\ pc = "returned"
    /\ task = "research create"
    /\ tasks[1].status = "failed"
    /\ tasks[1].confidence = Some(0)
    /\ tasks[1].error = Some("Agent timed out")
    /\ tasks[2].status = "completed"
    /\ runs[RunId].status = "completed"

\* C19.  No retries: executeAgent is called at most once for each task
\* record, and the retry counter of every task record stays 0.
C19_NoRetries ==
    \A id \in DOMAIN tasks :
        /\ Cardinality({n \in DOMAIN executions : executions[n] = id}) <= 1
        /\ tasks[id].retry_count = 0

(***************************************************************************)
(* The plan builders on their own: planner.ts (generatePlan, which builds  *)
(* the plan with heuristicPlan) and enhanced-planner.ts                    *)
(* (generateEnhancedPlan), for any task text and any set of enabled tools. *)
(***************************************************************************)
\* a synthesizer that depends on itself instead of on the last phase
lastRoles_Self(phases) == <<"synthesizer">>

\* phases.at(-1)?.tasks.map(t => t.role) || []
lastRoles(phases) ==
    IF Len(phases) = 0 THEN <<>>
    ELSE [i \in 1..Len(phases[Len(phases)].tasks) |->
             phases[Len(phases)].tasks[i].role]

heuristicPlan(text, availableToolNames) ==
    LET needsResearch ==
            Test({"research", "find", "search", "look up", "investigate", "analyze"}, text)
        needsCode ==
            Test({"build", "create", "write", "implement", "code", "develop", "fix",
                  "refactor"}, text)
        needsData ==
            Test({"data", "database", "query", "fetch", "scrape", "collect"}, text)
        needsReport ==
            Test({"report", "summary", "summarize", "document", "write up"}, text)
        needsReview ==
            Test({"review", "audit", "check", "verify", "validate"}, text)
        researchTasks ==
            (IF needsResearch
             THEN << PlannedTask("researcher", "", <<>>,
                         filter(<<"web_search", "web_fetch">>, availableToolNames),
                         <<>>) >>
             ELSE <<>>)
            \o (IF needsData
                THEN << PlannedTask("data_collector", "", <<>>,
                            filter(<<"web_fetch", "shell_exec", "postgres_query">>,
                                   availableToolNames),
                            <<>>) >>
                ELSE <<>>)
        phases1 ==
            IF needsResearch \/ needsData
            THEN << Phase("Phase 1: Research & Data Gathering", researchTasks, TRUE) >>
            ELSE <<>>
        phases2 ==
            IF needsCode
            THEN Append(phases1,
                     Phase(IF needsResearch THEN "Phase 2: Implementation"
                           ELSE "Phase 1: Implementation",
                           << PlannedTask("implementer", "",
                                  IF needsResearch THEN <<"researcher">> ELSE <<>>,
                                  filter(<<"file_read", "file_write", "shell_exec",
                                           "github_cli">>, availableToolNames),
                                  IF needsResearch THEN <<"research", "data">>
                                  ELSE <<>>) >>,
                           FALSE))
            ELSE phases1
        phases3 ==
            IF needsReview
            THEN Append(phases2,
                     Phase("Phase " \o ToString(Len(phases2) + 1) \o ": Review & Validation",
                           << PlannedTask("reviewer", "",
                                  IF needsCode THEN <<"implementer">>
                                  ELSE IF needsResearch THEN <<"researcher">>
                                  ELSE <<>>,
                                  filter(<<"file_read", "shell_exec">>, availableToolNames),
                                  <<"implementation", "research">>) >>,
                           FALSE))
            ELSE phases2
        phases4 ==
            IF needsReport \/ Len(phases3) > 1
            THEN Append(phases3,
                     Phase("Phase " \o ToString(Len(phases3) + 1) \o ": Synthesis",
                           << PlannedTask("synthesizer", "", lastRoles(phases3),
                                  filter(<<"file_write">>, availableToolNames),
                                  <<"research", "data", "implementation", "review">>) >>,
                           FALSE))
            ELSE phases3
    IN  [phases |->
            IF Len(phases4) = 0
            THEN << Phase("Phase 1: Execute",
                          << PlannedTask("executor", "", <<>>, availableToolNames,
                                 <<>>) >>,
                          FALSE) >>
            ELSE phases4]

\* the task texts given to the plan builders: one for every path of either
\* builder, one with more than LargeDomains domains, one longer than
\* MediumLength characters and two longer than LargeLength characters
PlanTexts ==
    LET p8 == "zzz zzz "
        p64 == p8 \o p8 \o p8 \o p8 \o p8 \o p8 \o p8 \o p8
        p256 == p64 \o p64 \o p64 \o p64
        p512 == p256 \o p256
    IN  {"hello", "research", "data", "research data report", "create",
         "research create", "review", "create review", "research review",
         "research create review", "report", "create delete", "enterprise",
         "enterprise postgrest", "postgrest ui test", "build test review",
         "Research the top Go web frameworks and create a comparison report",
         p256, p512, p512 \o "create"}

InitPlan ==
    /\ task \in PlanTexts
    /\ apiKey = TRUE
    /\ InitStore
    /\ InitRun

\* the tools table: any set of the seeded tools may be enabled
EnableTools ==
    /\ pc = "start"
    /\ \E names \in SUBSET Range(SeedTools) :
           /\ enabled' = names
           /\ tools' = getTools(names)
    /\ pc' = "plan"
    /\ UNCHANGED <<task, runs, tasks, entries, artifacts, now, nextId, calls,
                   plan, taskIdMap, mi, ph, inv, thrown, apiKey, executions, failures>>

\* generatePlan(task, tools)
GeneratePlan ==
    /\ pc = "plan"
    /\ plan' = heuristicPlan(task, tools)
    /\ pc' = "planned"
    /\ UNCHANGED <<task, storeVars, tools, taskIdMap, mi, ph, inv, thrown, apiKey,
                   executions, failures>>

\* generateEnhancedPlan(task, tools)
GenerateEnhancedPlan ==
    /\ pc = "plan"
    /\ plan' = generateEnhancedPlan(task, tools)
    /\ pc' = "planned"
    /\ UNCHANGED <<task, storeVars, tools, taskIdMap, mi, ph, inv, thrown, apiKey,
                   executions, failures>>

NextPlan == EnableTools \/ GeneratePlan \/ GenerateEnhancedPlan

SpecPlan == InitPlan /\ [][NextPlan]_vars

\* C20.  Every plan a plan builder produces is a well-formed DAG: every
\* dependency role of every planned task is the role of a planned task of the
\* same plan that stands in an earlier phase, or earlier in the same phase.
C20_WellFormedDag ==
    (pc = "planned") =>
        \A k \in 1..Len(plan.phases) :
            \A i \in 1..Len(plan.phases[k].tasks) :
                \A dep \in Range(plan.phases[k].tasks[i].dependencies) :
                    \E k2 \in 1..k :
                        \E i2 \in 1..Len(plan.phases[k2].tasks) :
                            /\ plan.phases[k2].tasks[i2].role = dep
                            /\ k2 < k \/ i2 < i

\* a plan of four phases whose last task depends on the task before it,
\* which depends on the one before it, which depends on the first
C20_Witness ==
    /\ pc = "planned"
    /\ Len(plan.phases) = 4
    /\ \A k \in 2..4 :
           plan.phases[k].tasks[1].dependencies = <<plan.phases[k - 1].tasks[1].role>>

\* C21.  In every plan a plan builder produces, no task of a phase whose
\* parallel flag is true depends on the role of another task of that phase.
C21_ParallelIndependent ==
    (pc = "planned") =>
        \A k \in 1..Len(plan.phases) :
            plan.phases[k].parallel =>
                \A i, j \in 1..Len(plan.phases[k].tasks) :
                    i # j => plan.phases[k].tasks[j].role
                                 \notin Range(plan.phases[k].tasks[i].dependencies)

\* a parallel phase of two tasks that have dependencies
C21_Witness ==
    /\ pc = "planned"
    /\ \E k \in 1..Len(plan.phases) :
           /\ plan.phases[k].parallel
           /\ Len(plan.phases[k].tasks) = 2
           /\ \A i \in 1..2 : plan.phases[k].tasks[i].dependencies # <<>>

\* C22.  In every plan a plan builder returns, a phase has parallel = true
\* only if no two distinct tasks of the phase have a dependency role in common.
C22_ParallelOnlyIfNoSharedDependency ==
    (pc = "planned") =>
        \A k \in 1..Len(plan.phases) :
            plan.phases[k].parallel =>
                \A i, j \in 1..Len(plan.phases[k].tasks) :
                    i # j => Range(plan.phases[k].tasks[i].dependencies)
                                 \cap Range(plan.phases[k].tasks[j].dependencies) = {}

\* C23.  When the computed risk is high, the last phase of the enhanced plan
\* is a validation phase whose single task, role validator, lists as its
\* dependencies the roles of all tasks of the phase before it; when the risk
\* is not high the plan has no validation phase.
C23_ValidationPhase ==
    [][GenerateEnhancedPlan =>
         LET n == Len(plan'.phases)
             last == plan'.phases[n]
         IN  IF analyzeTaskComplexity(task).riskLevel = "high"
             THEN /\ n >= 2
                  /\ last.name = "Validation"
                  /\ Len(last.tasks) = 1
                  /\ last.tasks[1].role = "validator"
                  /\ last.tasks[1].dependencies = lastRoles(SubSeq(plan'.phases, 1, n - 1))
             ELSE \A k \in 1..n : plan'.phases[k].name # "Validation"]_vars

\* C24.  When the scope is enterprise or more than 3 domains are detected,
\* the enhanced plan starts with exactly three phases: a parallel analysis
\* phase with one task per domain, a sequential architecture phase with one
\* task that depends on every analysis task, and a parallel implementation
\* phase with one task per domain, each depending on the architecture task.
\* Only a validation phase may follow them.
C24_MultiDomainPlan ==
    [][GenerateEnhancedPlan =>
         LET complexity == analyzeTaskComplexity(task)
             doms == complexity.domains
             p == plan'.phases
         IN  (complexity.scope = "enterprise" \/ Len(doms) > 3) =>
                 /\ Len(p) = IF complexity.riskLevel = "high" THEN 4 ELSE 3
                 /\ p[1].parallel /\ ~p[2].parallel /\ p[3].parallel
                 /\ Len(p[1].tasks) = Len(doms)
                 /\ Len(p[2].tasks) = 1
                 /\ Len(p[3].tasks) = Len(doms)
                 /\ \A i \in 1..Len(doms) :
                        /\ p[1].tasks[i].domain = doms[i]
                        /\ p[1].tasks[i].role \in Range(p[2].tasks[1].dependencies)
                        /\ p[3].tasks[i].domain = doms[i]
                        /\ p[2].tasks[1].role \in Range(p[3].tasks[i].dependencies)
                 /\ Len(p) = 4 => p[4].name = "Validation"]_vars

\* the plan of a text of four domains that is not of enterprise scope
C24_Witness ==
    /\ pc = "planned"
    /\ Len(plan.phases) = 3
    /\ Len(plan.phases[1].tasks) = 4
    /\ plan.phases[2].tasks[1].role = "architect"
    /\ plan.phases[3].tasks[4].role = "testing_developer"

\* the whitelists a planned task's tools are drawn from: the one of its
\* domain, or else the ones the builders give to its role
Whitelists(t) ==
    CASE t.domain = "security" -> {<<"shell_exec", "file_read", "web_fetch">>}
      [] t.domain = "database" -> {<<"postgres_query", "shell_exec", "file_read">>}
      [] t.domain = "api" -> {<<"web_fetch", "shell_exec", "file_read", "file_write">>}
      [] t.domain = "frontend" -> {<<"file_read", "file_write", "shell_exec", "web_fetch">>}
      [] t.domain = "backend" -> {<<"file_read", "file_write", "shell_exec", "postgres_query">>}
      [] t.domain = "devops" -> {<<"shell_exec", "file_read", "file_write">>}
      [] t.domain = "research" -> {<<"web_search", "web_fetch", "file_write">>}
      [] t.domain = "testing" -> {<<"shell_exec", "file_read">>}
      [] t.domain = "general" -> {tools}
      [] t.role = "architect" -> {<<"file_read", "file_write">>}
      [] t.role = "researcher" -> {<<"web_search", "web_fetch">>,
                                   <<"web_search", "web_fetch", "file_write">>}
      [] t.role \in {"developer", "implementer"} ->
             {<<"file_read", "file_write", "shell_exec", "github_cli">>}
      [] t.role = "tester" -> {<<"shell_exec", "file_read">>}
      [] t.role \in {"validator", "reviewer"} -> {<<"file_read", "shell_exec">>}
      [] t.role = "data_collector" -> {<<"web_fetch", "shell_exec", "postgres_query">>}
      [] t.role = "synthesizer" -> {<<"file_write">>}
      [] t.role = "executor" -> {tools}

\* C25.  The tool list of every planned task of every plan holds only names
\* of the available tools, holds no name outside the whitelist of the task's
\* domain or role, and lists the retained names in whitelist order.
C25_ToolsFromWhitelist ==
    (pc = "planned") =>
        \A k \in 1..Len(plan.phases) :
            \A i \in 1..Len(plan.phases[k].tasks) :
                LET t == plan.phases[k].tasks[i]
                IN  /\ Range(t.tools) \subseteq Range(tools)
                    /\ \E w \in Whitelists(t) :
                           /\ Range(t.tools) = Range(w) \cap Range(tools)
                           /\ t.tools = SelectSeq(w, LAMBDA n : n \in Range(t.tools))

\* a task whose whitelist names four tools, of which the second and the
\* fourth are available and the other two are not
C25_Witness ==
    /\ pc = "planned"
    /\ \E k \in 1..Len(plan.phases) :
           \E i \in 1..Len(plan.phases[k].tasks) :
               /\ plan.phases[k].tasks[i].role = "api_developer"
               /\ plan.phases[k].tasks[i].tools = <<"shell_exec", "file_write">>

\* C26.  For the task text "Research the top Go web frameworks and create a
\* comparison report" the enhanced planner detects exactly the domain
\* research, computes the scope small, and returns a plan of a single phase
\* whose only task has the role researcher and as tools the names of
\* web_search, web_fetch that are available.
C26_ResearchScenario ==
    [][(/\ GenerateEnhancedPlan
        /\ task = "Research the top Go web frameworks and create a comparison report")
       => /\ analyzeTaskComplexity(task).domains = <<"research">>
          /\ analyzeTaskComplexity(task).scope = "small"
          /\ Len(plan'.phases) = 1
          /\ Len(plan'.phases[1].tasks) = 1
          /\ plan'.phases[1].tasks[1].role = "researcher"
          /\ plan'.phases[1].tasks[1].tools =
                 SelectSeq(<<"web_search", "web_fetch">>, LAMBDA n : n \in Range(tools))]_vars

\* C27.  For a task of scope small or medium whose text matches the build,
\* test and review triggers and no research trigger, the plan has exactly
\* three sequential phases of one task each, in the order implementer,
\* reviewer, synthesizer; the reviewer depends on the implementer and the
\* synthesizer on the reviewer.
C27_BuildTestReview ==
    (/\ pc = "planned"
     /\ analyzeTaskComplexity(task).scope \in {"small", "medium"}
     /\ Test(BuildRe, task)
     /\ Test(DomainRe("testing"), task)
     /\ Test({"review", "audit", "check", "verify", "validate"}, task)
     /\ ~Test(ResearchRe, task))
    => /\ Len(plan.phases) = 3
       /\ \A k \in 1..3 : ~plan.phases[k].parallel /\ Len(plan.phases[k].tasks) = 1
       /\ plan.phases[1].tasks[1].role = "implementer"
       /\ plan.phases[2].tasks[1].role = "reviewer"
       /\ plan.phases[3].tasks[1].role = "synthesizer"
       /\ plan.phases[2].tasks[1].dependencies = <<"implementer">>
       /\ plan.phases[3].tasks[1].dependencies = <<"reviewer">>

\* every pattern either plan builder tests the task text against
AllTriggers ==
    UNION {DomainRe(DomainOrder[i]) : i \in 1..Len(DomainOrder)}
    \cup EnterpriseRe \cup MediumRiskRe \cup HighRiskRe \cup SequentialRe
    \cup ParallelRe \cup ResearchRe \cup BuildRe
    \cup {"find", "search", "look up", "write", "code", "fix", "refactor",
          "data", "fetch", "scrape", "collect", "report", "summary", "summarize",
          "document", "write up", "review", "check", "verify", "validate"}

\* the fallback plan: one phase with the one task executor, which has no
\* dependencies and is granted every available tool
FallbackPlan ==
    /\ Len(plan.phases) = 1
    /\ Len(plan.phases[1].tasks) = 1
    /\ plan.phases[1].tasks[1].role = "executor"
    /\ plan.phases[1].tasks[1].dependencies = <<>>
    /\ plan.phases[1].tasks[1].tools = tools

C29_Report ==
    [][(pc = "complete" /\ pc' = "returned") =>
         LET report == runs'[RunId].result[1].summary
             ofRun == {id \in DOMAIN tasks : tasks[id].run_id = RunId}
             completed == {id \in ofRun : tasks[id].status = "completed"}
             failed == {id \in ofRun : tasks[id].status = "failed"}
         IN  /\ report.succeeded = Cardinality(completed)
             /\ report.total = Cardinality(ofRun)
             /\ Len(report.sections) = Cardinality(completed)
             /\ \A id \in completed :
                    Cardinality({n \in DOMAIN report.sections :
                                     report.sections[n] = tasks[id].role})
                    = Cardinality({o \in completed : tasks[o].role = tasks[id].role})
             /\ Len(report.failures) = Cardinality(failed)
             /\ \A id \in failed :
                    Cardinality({n \in DOMAIN report.failures :
                                     report.failures[n] = <<tasks[id].role, tasks[id].error>>})
                    = Cardinality({o \in failed :
                                       /\ tasks[o].role = tasks[id].role
                                       /\ tasks[o].error = tasks[id].error})
             /\ UNCHANGED <<tasks, entries>>]_vars

\* the report of a run with one completed and one failed task
C29_Witness ==
    /\ pc = "returned"
    /\ runs[RunId].result[1].summary.succeeded = 1
    /\ runs[RunId].result[1].summary.total = 2
    /\ Len(runs[RunId].result[1].summary.sections) = 1
    /\ Len(runs[RunId].result[1].summary.failures) = 1

\* C30.  An entry a task produces is stored under the key role:entryKey with
\* the task's role as its author; so no write changes the author of an entry,
\* whatever entry keys the external executor returns: tasks of different roles
\* never write to the same (run, key).
C30_NoCrossRoleCollision ==
    [][/\ \A row \in entries' :
              row.run_id = RunId =>
                  /\ Len(row.key) > Len(row.written_by)
                  /\ SubSeq(row.key, 1, Len(row.written_by) + 1) = row.written_by \o ":"
       /\ \A old \in entries : \A new \in entries' :
              old.id = new.id => new.written_by = old.written_by]_vars

\* two tasks of different roles have both stored the entry key findings,
\* and one of them a key that starts with the other's role
C30_Witness ==
    /\ \E row \in entries : row.run_id = RunId /\ row.key = "researcher:findings"
    /\ \E row \in entries : row.run_id = RunId /\ row.key = "developer:findings"
    /\ \E row \in entries : row.run_id = RunId /\ row.key = "researcher:developer:findings"

(***************************************************************************)
(* The blackboard queried: any sequence of createRun and writeEntry calls  *)
(* whose entries carry tags and entity ids, and any query over the store.  *)
(***************************************************************************)
QEntityIds == {{}, {"e1"}}

QWriteEntry ==
    /\ now < MaxWrites
    /\ \E r \in DOMAIN runs, key \in BBKeys, by \in BBAuthors, tags \in BBTags,
          ids \in QEntityIds :
           ApplyWrite([run_id |-> r, key |-> key, value |-> "A",
                       written_by |-> by, tags |-> tags, entity_ids |-> ids])
    /\ UNCHANGED <<task, enabled, runs, tasks, artifacts, pc, runLocals, thrown,
                   apiKey, executions, failures>>

NextQuery == BBCreateRun \/ QWriteEntry

SpecQuery == InitBB /\ [][NextQuery]_vars

\* the options a query is made with: every combination of a tag filter, an
\* author filter, an entity-id filter and a limit
QueryOpts ==
    [tags : {{}, {"research"}}, written_by : {NULL, Some("researcher")},
     entity_ids : QEntityIds, limit : 0..2]

\* C31.  queryEntries(run, opts) returns exactly the entries of that run that
\* satisfy every filter given, never an entry of another run, in ascending
\* order of creation, cut to the first opts.limit of them when a limit is
\* given; without a filter it returns all entries of the run.
C31_QueryExact ==
    \A r \in DOMAIN runs, opts \in QueryOpts :
        LET res == queryEntries(entries, r, opts)
            matching ==
                {row \in entries :
                    /\ row.run_id = r
                    /\ opts.tags # {} => row.tags \cap opts.tags # {}
                    /\ opts.written_by # NULL => row.written_by = opts.written_by[1]
                    /\ opts.entity_ids # {} => row.entity_ids \cap opts.entity_ids # {}}
        IN  /\ Range(res) \subseteq matching
            /\ \A i, k \in DOMAIN res : i < k => res[i].created_at < res[k].created_at
            /\ Len(res) = IF opts.limit > 0 /\ Cardinality(matching) > opts.limit
                          THEN opts.limit ELSE Cardinality(matching)
            /\ \A row \in matching \ Range(res) :
                   \A i \in DOMAIN res : res[i].created_at < row.created_at
            /\ opts = NoOpts => Range(res) = {row \in entries : row.run_id = r}

\* a store with two runs in which a query with all three filters and a limit
\* of one finds two matching entries of the run and returns the older one
C31_Witness ==
    /\ Len(runs) = 2
    /\ \E row \in entries : row.run_id = 2
    /\ LET opts == [tags |-> {"research"}, written_by |-> Some("researcher"),
                    entity_ids |-> {"e1"}, limit |-> 1]
       IN  /\ Len(queryEntries(entries, 1, opts)) = 1
           /\ Len(queryEntries(entries, 1, [opts EXCEPT !.limit = 0])) = 2
           /\ queryEntries(entries, 1, opts)[1].created_at
                  < queryEntries(entries, 1, [opts EXCEPT !.limit = 0])[2].created_at

\* C32.  Confidence is null exactly while a task is not terminal: a task with
\* status pending or running has confidence null, and a task with status
\* completed or failed has a confidence between 0.0 and 1.0 (0 to 10 tenths),
\* also when it failed because the external call or a step of its execution
\* threw.
C32_ConfidenceWhenTerminal ==
    \A id \in DOMAIN tasks :
        /\ tasks[id].status \in {"pending", "running"} => tasks[id].confidence = NULL
        /\ tasks[id].status \in {"completed", "failed"} =>
               /\ tasks[id].confidence # NULL
               /\ tasks[id].confidence[1] \in 0..10

\* C33.  The plan of a run is null while the run's status is pending or
\* planning and is non-null in every state where the status is running or
\* completed.
C33_PlanNullUntilPlanned ==
    \A r \in DOMAIN runs :
        /\ runs[r].status \in {"pending", "planning"} => runs[r].plan = NULL
        /\ runs[r].status \in {"running", "completed"} => runs[r].plan # NULL

\* a run that has just been moved to running with its plan, before any of
\* its tasks is created
C33_Witness ==
    /\ pc = "materialize"
    /\ runs[RunId].status = "running"
    /\ runs[RunId].plan = Some(plan)
    /\ tasks = <<>>

\* C34.  The status of a run only moves forward along pending -> planning ->
\* running -> completed, with failed reachable from planning or running: a
\* completed or failed run never changes its status again.
C34_RunStatusForward ==
    [][\A r \in DOMAIN runs :
          runs'[r].status # runs[r].status =>
              <<runs[r].status, runs'[r].status>> \in
                  {<<"pending", "planning">>, <<"planning", "running">>,
                   <<"running", "completed">>, <<"planning", "failed">>,
                   <<"running", "failed">>}]_vars

\* C34, amended.  The status of a run only moves forward along pending ->
\* planning -> running -> completed, with failed reachable from pending,
\* planning or running: a completed or failed run never changes its status
\* again.
C34_RunStatusForward_Amended ==
    [][\A r \in DOMAIN runs :
          runs'[r].status # runs[r].status =>
              <<runs[r].status, runs'[r].status>> \in
                  {<<"pending", "planning">>, <<"planning", "running">>,
                   <<"running", "completed">>, <<"pending", "failed">>,
                   <<"planning", "failed">>, <<"running", "failed">>}]_vars

\* a run marked failed after its update to planning was rejected
C34_Witness ==
    /\ pc = "thrown"
    /\ Len(runs) = 1
    /\ runs[RunId].status = "failed"
    /\ failures.write = 1
    /\ tools = <<>>

\* C35.  When a run has the status completed, every task record of that run
\* has the status completed or failed: none is left pending or running.
C35_CompletedRunHasTerminalTasks ==
    \A r \in DOMAIN runs :
        runs[r].status = "completed" =>
            \A id \in DOMAIN tasks :
                tasks[id].run_id = r => tasks[id].status \in {"completed", "failed"}

\* C36.  At the moment a task record is moved from pending to running, every
\* task named in its dependency-id list has a terminal status, completed or
\* failed; a failed dependency does not keep the task from being started.
C36_DependenciesTerminalAtStart ==
    [][\A id \in DOMAIN tasks :
          (tasks[id].status = "pending" /\ tasks'[id].status = "running") =>
              \A dep \in Range(tasks[id].dependencies) :
                  tasks[dep].status \in {"completed", "failed"}]_vars

\* a running task one of whose dependencies has failed
C36_Witness ==
    \E id \in DOMAIN tasks :
        /\ tasks[id].status = "running"
        /\ \E dep \in Range(tasks[id].dependencies) : tasks[dep].status = "failed"

\* C37.  All task records of a run are created, with status pending, before
\* any task of the run is moved to running: a record is created only while
\* every record is pending, and a record is moved to running only when a
\* record exists for every planned task of the plan.
C37_AllCreatedBeforeAnyStarts ==
    [][/\ \A id \in DOMAIN tasks' \ DOMAIN tasks :
              /\ tasks'[id].status = "pending"
              /\ \A o \in DOMAIN tasks : tasks[o].status = "pending"
       /\ (\E id \in DOMAIN tasks : /\ tasks[id].status = "pending"
                                    /\ tasks'[id].status = "running")
          => Len(tasks) = LastIdOf(Len(plan.phases))]_vars

\* the five records of a two-domain plan, the first task to be started
\* running and the others still pending
C37_Witness ==
    /\ Len(tasks) = 5
    /\ Cardinality({id \in DOMAIN tasks : tasks[id].status = "running"}) = 1
    /\ Cardinality({id \in DOMAIN tasks : tasks[id].status = "pending"}) = 4

\* C38.  A task is marked completed only after every entry and every artifact
\* its external call returned has been written: at the update to completed
\* every entry of the result is in the store under the task's role, and every
\* artifact of the result is saved for the task; no entry is ever removed.
C38_CompletedAfterWrites ==
    [][/\ \A j \in DOMAIN inv \cap DOMAIN inv' :
              (/\ inv[j].pc = "final" /\ inv'[j].pc = "done"
               /\ tasks'[TaskIdOf(j)].status = "completed")
              => /\ \A k \in DOMAIN inv[j].result[1].entries :
                        \E row \in entries' :
                            /\ row.run_id = RunId
                            /\ row.key = Planned(j).role \o ":"
                                             \o inv[j].result[1].entries[k].key
                            /\ row.written_by = Planned(j).role
                 /\ \A k \in DOMAIN inv[j].result[1].artifacts :
                        \E n \in DOMAIN artifacts' :
                            /\ artifacts'[n].run_id = RunId
                            /\ artifacts'[n].task_id = TaskIdOf(j)
                            /\ artifacts'[n].name = inv[j].result[1].artifacts[k].name
       /\ \A row \in entries : \E new \in entries' :
              new.run_id = row.run_id /\ new.key = row.key]_vars

\* a completed developer whose result had two entries and an artifact
C38_Witness ==
    \E id \in DOMAIN tasks :
        /\ tasks[id].role = "developer"
        /\ tasks[id].status = "completed"
        /\ \E row \in entries : row.key = "developer:findings"
        /\ \E row \in entries : row.key = "developer:developer:findings"
        /\ \E n \in DOMAIN artifacts : artifacts[n].task_id = id

(***************************************************************************)
(* Orchestrator.run under fair scheduling: every external call resolves    *)
(* and every store operation returns or throws, so a step that can be      *)
(* taken is eventually taken.                                              *)
(***************************************************************************)
InitLive ==
    /\ task = "research create"
    /\ apiKey \in BOOLEAN
    /\ InitStore
    /\ InitRun

SpecLive == InitLive /\ [][Next]_vars /\ WF_vars(Next)

\* C39.  Termination: when every external call resolves and every store
\* operation returns or throws, every run eventually has the status completed
\* or failed for good, and every task that was moved to running eventually
\* is completed or failed.
C39_Termination ==
    <>[](/\ \A r \in DOMAIN runs : runs[r].status \in {"completed", "failed"}
         /\ \A id \in DOMAIN tasks : tasks[id].status # "running")

====
